---- MODULE Spec2Model ----
(***************************************************************************)
(* Streaming majority-vote consensus over bitstring samples, as written in *)
(* src/tensor_networks: the log replay (analyze_sample_analysis.py), the   *)
(* timed live run (tensor_networks_60q_timed.py), the plain sampler        *)
(* (tensor_networks_60q.py) and the two run_experiment variants of the     *)
(* parameter sweep (..._parameter_tuning_helper.py and ..._withGPU.py).    *)
(*                                                                         *)
(* A bitstring is a sequence of the one-character strings "0" and "1"; a   *)
(* raw line of the sample file also carries whitespace (" " and "\n").     *)
(* Python's 0-based position i is position i+1 here.                       *)
(***************************************************************************)
EXTENDS Integers, Sequences, FiniteSets, TLC

VARIABLES
    prog,             \* which program runs: "replay", "majority", "timed", "plain",
                      \* "helper", "gpu"
    pc,               \* the position of the program
    outcome,          \* how the program ended: "none" while it runs, "returned", the
                      \* exception that left it ("SourceError", "IndexError"), or
                      \* "interrupted"
    target,           \* target_bitstring (<<>> in the program that has none)
    file,             \* the lines of the sample file on disk
    fbuf,             \* lines written to f and not yet flushed
    pos,              \* replay: number of lines of the file already read
    bit_counts,       \* replay: bit_counts, one dict per position
    lines_processed,  \* replay: lines_processed
    result,           \* the sample count the program reports (NoResult: none)
    stream,           \* live: the samples the source has yielded so far
    sample_batch_size,\* live: sample_batch_size
    batch_left,       \* live: samples the current generator still has to yield
    batches,          \* live: number of generators created (batch requests)
    b,                \* live: the loop variable b
    position_counts,  \* live: position_counts, one dict per position
    sample_count,     \* live: sample_count (samples_count in run_experiment)
    current_vote,     \* current_vote (NoVote before the first vote)
    found,            \* helper: found
    total_samples,    \* majority_vote_from_file: total_samples
    final_bits,       \* majority_vote_from_file: the bitstring returned
    preexisting,      \* number of lines the file held when the run opened it
    cancel_requested, \* the caller has asked the run to stop (no program reads it)
    returns,          \* __main__ of the analysis scripts: what the calls made so far
                      \* returned
    harness,          \* main_tuning: its position ("none" when no sweep runs)
    cell,             \* main_tuning: how many configurations the for loop has taken
    tested,           \* main_tuning: the configurations printed as "Testing: ..."
    results,          \* main_tuning: results
    report,           \* main_tuning: the pivot tables made from df
    counter,          \* check_repeats_from_file: counter
    repeats           \* check_repeats_from_file: the dict returned

vars == <<prog, pc, outcome, target, file, fbuf, pos, bit_counts, lines_processed,
          result, stream, sample_batch_size, batch_left, batches, b,
          position_counts, sample_count, current_vote, found, total_samples,
          final_bits, preexisting, cancel_requested, returns, harness, cell,
          tested, results, report, counter, repeats>>

repeatVars == <<counter, repeats>>

callerVars == <<returns, harness, cell, tested, results, report>>

replayVars == <<pos, bit_counts, lines_processed, total_samples, final_bits>>
liveVars == <<stream, sample_batch_size, batch_left, batches, b, position_counts,
              sample_count, fbuf, found>>

----------------------------------------------------------------------------
(* Bounds of the model *)

\* num_qubits: the length of a well-formed bitstring (60 in the source).
N == 2
\* The longest sample file that is replayed.
MaxLines == 3
\* The most samples a live run draws from the source before the model stops it.
MaxSamples == 3
\* The largest sample_batch_size tried.
MaxBatch == 2
\* The number of samples after which a caller's budget would be spent.
SampleBudget == 2

----------------------------------------------------------------------------
(* Bitstrings and lines *)

Bits == {"0", "1"}
Whitespace == {" ", "\n"}
Symbols == Bits \cup Whitespace

BitVectors(n) == [1..n -> Bits]

\* A representative sample that is too short, and one that is too long.
ShortSample == [i \in 1..(N - 1) |-> "1"]
LongSample == [i \in 1..(N + 1) |-> "0"]

\* What a program may find as text of a line: a bitstring of the right length or
\* one of the two wrong lengths, or nothing.
LineTexts == BitVectors(N) \cup {ShortSample, LongSample, <<>>}

\* f.write(b + "\n"): the raw line of a sample.
WriteLine(s) == s \o <<"\n">>

\* Raw lines of a file: each text newline-terminated, and one text padded with
\* blanks on both sides.
RawLines == {WriteLine(t) : t \in LineTexts}
            \cup {<<" ">> \o WriteLine([i \in 1..N |-> "1"] \o <<" ">>)}

\* str.strip(): the line without its leading and its trailing whitespace.
RECURSIVE LStrip(_)
LStrip(s) == IF s # <<>> /\ Head(s) \in Whitespace THEN LStrip(Tail(s)) ELSE s

RECURSIVE RStrip(_)
RStrip(s) == IF s # <<>> /\ s[Len(s)] \in Whitespace
             THEN RStrip(SubSeq(s, 1, Len(s) - 1)) ELSE s

strip(s) == RStrip(LStrip(s))

\* [defaultdict(int) for _ in range(num_qubits)]
EmptyCounts == [i \in 1..N |-> [c \in Symbols |-> 0]]

\* No vote computed yet; no sample count reported.
NoVote == <<>>
NoResult == -1

\* No pivot table made yet.
NoReport == <<>>

\* Counter(): every key counts 0.
EmptyCounter == [s \in BitVectors(N) |-> 0]

\* No dict of repeats made yet.
NoRepeats == <<>>

\* An update that counts the "1" symbols only.
UpdateOnesOnly(counts, sample) ==
    [i \in 1..N |-> IF i <= Len(sample) /\ sample[i] = "1"
                    THEN [counts[i] EXCEPT !["1"] = @ + 1]
                    ELSE counts[i]]

\* An update that makes the dict of a position anew before it counts the bit.
UpdateLastOnly(counts, sample) ==
    [i \in 1..N |-> IF i <= Len(sample)
                    THEN [c \in Symbols |-> IF c = sample[i] THEN 1 ELSE 0]
                    ELSE counts[i]]

\* for i, bit in enumerate(sample): counts[i][bit] += 1, for the positions the
\* list of dicts has.
UpdateCounts(counts, sample) ==
    [i \in 1..N |-> IF i <= Len(sample)
                    THEN [counts[i] EXCEPT ![sample[i]] = @ + 1]
                    ELSE counts[i]]

\* All files of at most n raw lines.
Files(n) == UNION {[1..k -> RawLines] : k \in 0..n}

----------------------------------------------------------------------------
(* analyze_sample_analysis.py *)

\* compute_majority_vote with the tie going to "0".
compute_majority_vote_strict(counts, num_qubits) ==
    [i \in 1..num_qubits |->
        IF counts[i]["1"] > counts[i]["0"] THEN "1" ELSE "0"]

\* compute_majority_vote with a comparison that is off by one in favour of "1".
compute_majority_vote_off_by_one(counts, num_qubits) ==
    [i \in 1..num_qubits |->
        IF counts[i]["1"] + 1 >= counts[i]["0"] THEN "1" ELSE "0"]

compute_majority_vote(counts, num_qubits) ==
    [i \in 1..num_qubits |->
        IF counts[i]["1"] >= counts[i]["0"] THEN "1" ELSE "0"]

\* A comparison with the target that never succeeds (no early return).
ConvergedNever(vote, target_bitstring) == FALSE

\* if current_vote == target_bitstring
Converged(vote, target_bitstring) == vote = target_bitstring

\* The length test of lines_until_target that only passes over blank lines.
IsSkippedBlankOnly(sample, num_qubits) == Len(sample) = 0

\* if len(sample) != num_qubits: continue
IsSkipped(sample, num_qubits) == Len(sample) # num_qubits

\* An end of the file that reports "target never reached" by a value of its own.
AtEndOfFileNoResult(processed) == NoResult

\* "If target is never reached, return total lines processed."
AtEndOfFile(processed) == processed

\* One iteration of `for line in f` in lines_until_target.
ReplayLine ==
    /\ prog = "replay" /\ pc = "loop" /\ pos < Len(file)
    /\ LET sample == strip(file[pos + 1])
           counts == UpdateCounts(bit_counts, sample)
           vote   == compute_majority_vote(counts, N)
       IN  /\ pos' = pos + 1
           /\ IF IsSkipped(sample, N)
              THEN UNCHANGED <<bit_counts, lines_processed, current_vote, pc,
                               outcome, result>>
              ELSE /\ lines_processed' = lines_processed + 1
                   /\ bit_counts' = counts
                   /\ current_vote' = vote
                   /\ IF Converged(vote, target)
                      THEN /\ pc' = "done"
                           /\ outcome' = "returned"
                           /\ result' = lines_processed + 1
                      ELSE UNCHANGED <<pc, outcome, result>>
    /\ UNCHANGED <<prog, target, file, total_samples, final_bits, preexisting,
                   cancel_requested>>
    /\ UNCHANGED liveVars
    /\ UNCHANGED callerVars
    /\ UNCHANGED repeatVars

\* The end of the file: return lines_processed.
ReplayEnd ==
    /\ prog = "replay" /\ pc = "loop" /\ pos = Len(file)
    /\ pc' = "done"
    /\ outcome' = "returned"
    /\ result' = AtEndOfFile(lines_processed)
    /\ UNCHANGED <<prog, target, file, current_vote, found, preexisting, cancel_requested>>
    /\ UNCHANGED replayVars
    /\ UNCHANGED liveVars
    /\ UNCHANGED callerVars
    /\ UNCHANGED repeatVars

\* lines_until_target as a function of the file's lines: the loop from the given
\* counts and number of lines processed on.
RECURSIVE lines_until_target_from(_, _, _, _)
lines_until_target_from(lines, counts, processed, target_bitstring) ==
    IF lines = <<>> THEN AtEndOfFile(processed)
    ELSE LET sample == strip(Head(lines))
             updated == UpdateCounts(counts, sample)
         IN  IF IsSkipped(sample, N)
             THEN lines_until_target_from(Tail(lines), counts, processed,
                                          target_bitstring)
             ELSE IF Converged(compute_majority_vote(updated, N), target_bitstring)
             THEN processed + 1
             ELSE lines_until_target_from(Tail(lines), updated, processed + 1,
                                          target_bitstring)

lines_until_target(lines, target_bitstring) ==
    lines_until_target_from(lines, EmptyCounts, 0, target_bitstring)

----------------------------------------------------------------------------
(* analyze_samples.py: majority_vote_from_file *)

\* if len(sample) != num_qubits: continue
IsIgnored(sample, num_qubits) == Len(sample) # num_qubits

\* The loop over range(num_qubits) with a tie voting "1", as the comment in the
\* loop has it.
RECURSIVE FinalBitsTieToOne(_, _, _)
FinalBitsTieToOne(counts, i, num_qubits) ==
    IF i > num_qubits THEN <<>>
    ELSE (IF counts[i]["1"] >= counts[i]["0"] THEN <<"1">> ELSE <<"0">>)
         \o FinalBitsTieToOne(counts, i + 1, num_qubits)

\* The loop over range(num_qubits) from position i on: "1" is appended when
\* count_1 > count_0, "0" when count_0 > count_1, and nothing on a tie.
RECURSIVE FinalBitsFrom(_, _, _)
FinalBitsFrom(counts, i, num_qubits) ==
    IF i > num_qubits THEN <<>>
    ELSE (IF counts[i]["1"] > counts[i]["0"] THEN <<"1">> ELSE <<>>)
         \o (IF counts[i]["0"] > counts[i]["1"] THEN <<"0">> ELSE <<>>)
         \o FinalBitsFrom(counts, i + 1, num_qubits)

\* One iteration of `for line in f` in majority_vote_from_file.
MajorityLine ==
    /\ prog = "majority" /\ pc = "loop" /\ pos < Len(file)
    /\ LET sample == strip(file[pos + 1])
       IN  /\ pos' = pos + 1
           /\ IF IsIgnored(sample, N)
              THEN UNCHANGED <<bit_counts, total_samples>>
              ELSE /\ total_samples' = total_samples + 1
                   /\ bit_counts' = UpdateCounts(bit_counts, sample)
    /\ UNCHANGED <<prog, pc, outcome, target, file, lines_processed, result,
                   current_vote, final_bits, preexisting, cancel_requested>>
    /\ UNCHANGED liveVars
    /\ UNCHANGED callerVars
    /\ UNCHANGED repeatVars

\* The end of the file: the final bits are computed, total_samples is printed
\* and the bitstring is returned.
MajorityEnd ==
    /\ prog = "majority" /\ pc = "loop" /\ pos = Len(file)
    /\ final_bits' = FinalBitsFrom(bit_counts, 1, N)
    /\ result' = total_samples
    /\ pc' = "done"
    /\ outcome' = "returned"
    /\ UNCHANGED <<prog, target, file, pos, bit_counts, lines_processed,
                   total_samples, current_vote, preexisting, cancel_requested>>
    /\ UNCHANGED liveVars
    /\ UNCHANGED callerVars
    /\ UNCHANGED repeatVars

----------------------------------------------------------------------------
(* analyze_samples.py: check_repeats_from_file *)

\* A filter that keeps every bitstring that was counted.
IsRepeatFromOne(c) == c >= 1

\* if c > 1, in the dict comprehension
IsRepeat(c) == c > 1

\* One iteration of `for line in f` in check_repeats_from_file.
RepeatsLine ==
    /\ prog = "repeats" /\ pc = "loop" /\ pos < Len(file)
    /\ LET sample == strip(file[pos + 1])
       IN  /\ pos' = pos + 1
           /\ IF Len(sample) = N
              THEN counter' = [counter EXCEPT ![sample] = @ + 1]
              ELSE UNCHANGED counter
    /\ UNCHANGED <<prog, pc, outcome, target, file, bit_counts, lines_processed,
                   result, current_vote, total_samples, final_bits, preexisting,
                   cancel_requested, repeats>>
    /\ UNCHANGED liveVars
    /\ UNCHANGED callerVars

\* The end of the file: repeats = {b: c for b, c in counter.items() if c > 1}
\* is returned.
RepeatsEnd ==
    /\ prog = "repeats" /\ pc = "loop" /\ pos = Len(file)
    /\ repeats' = [s \in {x \in DOMAIN counter : IsRepeat(counter[x])} |-> counter[s]]
    /\ pc' = "done"
    /\ outcome' = "returned"
    /\ UNCHANGED <<prog, target, file, result, current_vote, preexisting,
                   cancel_requested, counter>>
    /\ UNCHANGED replayVars
    /\ UNCHANGED liveVars
    /\ UNCHANGED callerVars

----------------------------------------------------------------------------
(* A second call of a replay function *)

\* The counts of the call before, kept for the next call.
replay_stale_locals ==
    [bit_counts |-> bit_counts, lines_processed |-> 0, total_samples |-> 0]

\* The locals both replay functions set up before they open the file:
\* bit_counts, and lines_processed or total_samples.
replay_locals ==
    [bit_counts |-> EmptyCounts, lines_processed |-> 0, total_samples |-> 0]

\* What a finished call leaves to its caller: the value returned, and the
\* consensus it ended with (current_vote of lines_until_target, the bitstring
\* returned by majority_vote_from_file).
ReturnOf(p) ==
    [result |-> result,
     consensus |-> IF p = "replay" THEN current_vote ELSE final_bits]

\* The caller notes what the first call returned and calls the function a second
\* time on the same file, with the same num_qubits and target.
CallAgain ==
    /\ prog \in {"replay", "majority"} /\ pc = "done"
    /\ returns = <<>>
    /\ returns' = Append(returns, ReturnOf(prog))
    /\ pc' = "loop"
    /\ outcome' = "none"
    /\ result' = NoResult
    /\ current_vote' = NoVote
    /\ pos' = 0
    /\ bit_counts' = replay_locals.bit_counts
    /\ lines_processed' = replay_locals.lines_processed
    /\ total_samples' = replay_locals.total_samples
    /\ final_bits' = <<>>
    /\ UNCHANGED <<prog, target, file, preexisting, cancel_requested, harness,
                   cell, tested, results, report>>
    /\ UNCHANGED liveVars
    /\ UNCHANGED repeatVars

InitReplay ==
    /\ prog \in {"replay", "majority", "repeats"}
    /\ pc = "loop"
    /\ outcome = "none"
    /\ target \in (IF prog = "replay" THEN BitVectors(N) ELSE {<<>>})
    /\ file \in Files(MaxLines)
    /\ fbuf = <<>>
    /\ pos = 0
    /\ bit_counts = EmptyCounts
    /\ lines_processed = 0
    /\ result = NoResult
    /\ stream = <<>>
    /\ sample_batch_size = 1
    /\ batch_left = 0
    /\ batches = 0
    /\ b = <<>>
    /\ position_counts = EmptyCounts
    /\ sample_count = 0
    /\ current_vote = NoVote
    /\ found = FALSE
    /\ total_samples = 0
    /\ final_bits = <<>>
    /\ preexisting = Len(file)
    /\ cancel_requested = FALSE
    /\ returns = <<>>
    /\ harness = "none"
    /\ cell = 0
    /\ tested = <<>>
    /\ results = <<>>
    /\ report = NoReport
    /\ counter = EmptyCounter
    /\ repeats = NoRepeats

NextReplay ==
    \/ ReplayLine \/ ReplayEnd \/ MajorityLine \/ MajorityEnd
    \/ RepeatsLine \/ RepeatsEnd \/ CallAgain

SpecReplay == InitReplay /\ [][NextReplay]_vars

----------------------------------------------------------------------------
(* The Sample Source: tn_circuit.sample_gate_by_gate(sample_batch_size, ...),  *)
(* a generator of sample_batch_size bitstrings.                            *)

\* What the source may yield: a bitstring of the right length, or one of a
\* wrong length.
SourceSamples == BitVectors(N) \cup {ShortSample, LongSample}

\* A loop condition that also stops the loop once a budget of samples is spent.
WhileWithinBudget(p, fnd, count) == count < SampleBudget /\ (p = "helper" => ~fnd)

\* `while True` in both mains and in the GPU run_experiment, `while not found`
\* in the helper's run_experiment. No condition reads the sample count.
WhileCondition(p, fnd, count) == IF p = "helper" THEN ~fnd ELSE TRUE

\* A handler that swallows the source's exception and asks for the batch again.
RetryOnSourceError(p) == [pc |-> "while", outcome |-> "none"]

\* The generator's exception is caught nowhere in main or in run_experiment:
\* it leaves the function.
OnSourceError(p) == [pc |-> "done", outcome |-> "SourceError"]

\* A flush that leaves the disk as it was.
NoFlush(disk, buffer) == disk

\* A flush that rewrites the file with the buffer alone.
FlushOverwrite(disk, buffer) == buffer

\* f.flush(): the buffered lines are appended to the file on disk.
FlushTo(disk, buffer) == disk \o buffer

LivePrograms == {"timed", "plain", "helper", "gpu"}
FilePrograms == {"timed", "plain"}
Experiments == {"helper", "gpu"}

\* The head of the while loop: a new generator for the next batch, or, when
\* the condition fails, the end of the loop and the return that follows it.
RequestBatch ==
    /\ prog \in LivePrograms /\ pc = "while"
    /\ IF WhileCondition(prog, found, sample_count)
       THEN /\ batches' = batches + 1
            /\ batch_left' = sample_batch_size
            /\ pc' = "for"
            /\ UNCHANGED <<outcome, result>>
       ELSE /\ pc' = "done"
            /\ outcome' = "returned"
            /\ result' = NoResult
            /\ UNCHANGED <<batches, batch_left>>
    /\ UNCHANGED <<prog, target, file, fbuf, stream, sample_batch_size, b,
                   position_counts, sample_count, current_vote, found,
                   preexisting, cancel_requested>>
    /\ UNCHANGED replayVars
    /\ UNCHANGED callerVars
    /\ UNCHANGED repeatVars

\* The generator is exhausted: the for loop ends and the while loop goes round.
BatchEnd ==
    /\ prog \in LivePrograms /\ pc = "for" /\ batch_left = 0
    /\ pc' = "while"
    /\ UNCHANGED <<prog, outcome, target, file, result, current_vote,
                   preexisting, cancel_requested>>
    /\ UNCHANGED liveVars
    /\ UNCHANGED replayVars
    /\ UNCHANGED callerVars
    /\ UNCHANGED repeatVars

\* The generator raises instead of yielding.
SourceRaise ==
    /\ prog \in LivePrograms /\ pc = "for" /\ batch_left > 0
    /\ pc' = OnSourceError(prog).pc
    /\ outcome' = OnSourceError(prog).outcome
    /\ UNCHANGED <<prog, target, file, result, current_vote, preexisting,
                   cancel_requested>>
    /\ UNCHANGED liveVars
    /\ UNCHANGED replayVars
    /\ UNCHANGED callerVars
    /\ UNCHANGED repeatVars

----------------------------------------------------------------------------
(* tensor_networks_60q_timed.py: main *)

compute_majority_vote_timed(counts, num_qubits) ==
    [i \in 1..num_qubits |->
        IF counts[i]["1"] >= counts[i]["0"] THEN "1" ELSE "0"]

\* for b in ...: sample_count += 1 (and the print of the sample).
TimedSample ==
    /\ prog = "timed" /\ pc = "for" /\ batch_left > 0
    /\ Len(stream) < MaxSamples
    /\ \E s \in SourceSamples :
          /\ b' = s
          /\ stream' = Append(stream, s)
    /\ batch_left' = batch_left - 1
    /\ sample_count' = sample_count + 1
    /\ pc' = "write"
    /\ UNCHANGED <<prog, outcome, target, file, fbuf, result, sample_batch_size,
                   batches, position_counts, current_vote, found, preexisting,
                   cancel_requested>>
    /\ UNCHANGED replayVars
    /\ UNCHANGED callerVars
    /\ UNCHANGED repeatVars

\* f.write(b + "\n")
TimedWrite ==
    /\ prog = "timed" /\ pc = "write"
    /\ fbuf' = Append(fbuf, WriteLine(b))
    /\ pc' = "flush"
    /\ UNCHANGED <<prog, outcome, target, file, result, stream, sample_batch_size,
                   batch_left, batches, b, position_counts, sample_count,
                   current_vote, found, preexisting, cancel_requested>>
    /\ UNCHANGED replayVars
    /\ UNCHANGED callerVars
    /\ UNCHANGED repeatVars

\* f.flush()
TimedFlush ==
    /\ prog = "timed" /\ pc = "flush"
    /\ file' = FlushTo(file, fbuf)
    /\ fbuf' = <<>>
    /\ pc' = "update"
    /\ UNCHANGED <<prog, outcome, target, result, stream, sample_batch_size,
                   batch_left, batches, b, position_counts, sample_count,
                   current_vote, found, preexisting, cancel_requested>>
    /\ UNCHANGED replayVars
    /\ UNCHANGED callerVars
    /\ UNCHANGED repeatVars

\* for i, bit in enumerate(b): position_counts[i][bit] += 1. A sample longer
\* than num_qubits raises IndexError once the num_qubits dicts are updated.
TimedUpdate ==
    /\ prog = "timed" /\ pc = "update"
    /\ position_counts' = UpdateCounts(position_counts, b)
    /\ IF Len(b) > N
       THEN /\ pc' = "done"
            /\ outcome' = "IndexError"
       ELSE /\ pc' = "check"
            /\ UNCHANGED outcome
    /\ UNCHANGED <<prog, target, file, fbuf, result, stream, sample_batch_size,
                   batch_left, batches, b, sample_count, current_vote, found,
                   preexisting, cancel_requested>>
    /\ UNCHANGED replayVars
    /\ UNCHANGED callerVars
    /\ UNCHANGED repeatVars

\* current_vote = compute_majority_vote(...); if current_vote == target_bitstring:
\* print the sample count and return.
TimedCheck ==
    /\ prog = "timed" /\ pc = "check"
    /\ current_vote' = compute_majority_vote_timed(position_counts, N)
    /\ IF current_vote' = target
       THEN /\ pc' = "done"
            /\ outcome' = "returned"
            /\ result' = sample_count
       ELSE /\ pc' = "for"
            /\ UNCHANGED <<outcome, result>>
    /\ UNCHANGED <<prog, target, file, preexisting, cancel_requested>>
    /\ UNCHANGED liveVars
    /\ UNCHANGED replayVars
    /\ UNCHANGED callerVars
    /\ UNCHANGED repeatVars

----------------------------------------------------------------------------
(* tensor_networks_60q.py: main *)

\* bitstring_counts[s], a function of the samples drawn so far.
bitstring_counts(s) == Cardinality({k \in 1..Len(stream) : stream[k] = s})

\* for b in ...: bitstring_counts[b] += 1
PlainSample ==
    /\ prog = "plain" /\ pc = "for" /\ batch_left > 0
    /\ Len(stream) < MaxSamples
    /\ \E s \in SourceSamples :
          /\ b' = s
          /\ stream' = Append(stream, s)
    /\ batch_left' = batch_left - 1
    /\ pc' = "write"
    /\ UNCHANGED <<prog, outcome, target, file, fbuf, result, sample_batch_size,
                   batches, position_counts, sample_count, current_vote, found,
                   preexisting, cancel_requested>>
    /\ UNCHANGED replayVars
    /\ UNCHANGED callerVars
    /\ UNCHANGED repeatVars

\* f.write(b + "\n")
PlainWrite ==
    /\ prog = "plain" /\ pc = "write"
    /\ fbuf' = Append(fbuf, WriteLine(b))
    /\ pc' = "flush"
    /\ UNCHANGED <<prog, outcome, target, file, result, stream, sample_batch_size,
                   batch_left, batches, b, position_counts, sample_count,
                   current_vote, found, preexisting, cancel_requested>>
    /\ UNCHANGED replayVars
    /\ UNCHANGED callerVars
    /\ UNCHANGED repeatVars

\* f.flush(); print(b)
PlainFlush ==
    /\ prog = "plain" /\ pc = "flush"
    /\ file' = FlushTo(file, fbuf)
    /\ fbuf' = <<>>
    /\ pc' = "for"
    /\ UNCHANGED <<prog, outcome, target, result, stream, sample_batch_size,
                   batch_left, batches, b, position_counts, sample_count,
                   current_vote, found, preexisting, cancel_requested>>
    /\ UNCHANGED replayVars
    /\ UNCHANGED callerVars
    /\ UNCHANGED repeatVars

----------------------------------------------------------------------------
(* run_experiment of tensor_networks_60q_parameter_tuning_helper.py and of  *)
(* tensor_networks_60q_paramater_tuning_withGPU.py                          *)

compute_majority_vote_helper(counts, num_qubits) ==
    [i \in 1..num_qubits |->
        IF counts[i]["1"] >= counts[i]["0"] THEN "1" ELSE "0"]

compute_majority_vote_gpu(counts, num_qubits) ==
    [i \in 1..num_qubits |->
        IF counts[i]["1"] > counts[i]["0"] THEN "1" ELSE "0"]

\* The vote of the program's own compute_majority_vote.
VoteOf(p, counts) ==
    CASE p = "timed"  -> compute_majority_vote_timed(counts, N)
      [] p = "helper" -> compute_majority_vote_helper(counts, N)
      [] p = "gpu"    -> compute_majority_vote_gpu(counts, N)

\* The helper's first loop: num_samples batches drawn only to be timed. They
\* come from their own rng and touch no count; the source may raise in any.
MeasureAverage ==
    /\ prog = "helper" /\ pc = "timing"
    /\ \/ /\ pc' = "while"
          /\ UNCHANGED outcome
       \/ /\ pc' = OnSourceError(prog).pc
          /\ outcome' = OnSourceError(prog).outcome
    /\ UNCHANGED <<prog, target, file, result, current_vote, preexisting,
                   cancel_requested>>
    /\ UNCHANGED liveVars
    /\ UNCHANGED replayVars
    /\ UNCHANGED callerVars
    /\ UNCHANGED repeatVars

\* One iteration of `for b in ...` of run_experiment: count the sample, update
\* the counts (IndexError on a sample longer than num_qubits), vote, and when the
\* vote is the target: return (GPU variant), or set found and break, which takes
\* the helper back to its while condition.
ExperimentSample ==
    /\ prog \in Experiments /\ pc = "for" /\ batch_left > 0
    /\ Len(stream) < MaxSamples
    /\ \E s \in SourceSamples :
          /\ b' = s
          /\ stream' = Append(stream, s)
          /\ position_counts' = UpdateCounts(position_counts, s)
          /\ IF Len(s) > N
             THEN /\ pc' = "done"
                  /\ outcome' = "IndexError"
                  /\ UNCHANGED <<current_vote, result, found>>
             ELSE /\ current_vote' = VoteOf(prog, position_counts')
                  /\ IF current_vote' # target
                     THEN UNCHANGED <<pc, outcome, result, found>>
                     ELSE IF prog = "gpu"
                     THEN /\ pc' = "done"
                          /\ outcome' = "returned"
                          /\ result' = sample_count + 1
                          /\ UNCHANGED found
                     ELSE /\ pc' = "while"
                          /\ found' = TRUE
                          /\ UNCHANGED <<outcome, result>>
    /\ batch_left' = batch_left - 1
    /\ sample_count' = sample_count + 1
    /\ UNCHANGED <<prog, target, file, fbuf, sample_batch_size, batches,
                   preexisting, cancel_requested>>
    /\ UNCHANGED replayVars
    /\ UNCHANGED callerVars
    /\ UNCHANGED repeatVars

----------------------------------------------------------------------------
(* The environment of a live run *)

\* The run is interrupted at any point: Ctrl-C (KeyboardInterrupt) leaves main
\* through the with block, which closes f and writes out its buffer; a kill of
\* the process loses what was written and not flushed.
Interrupt ==
    /\ prog \in LivePrograms /\ pc # "done"
    /\ pc' = "done"
    /\ outcome' = "interrupted"
    /\ \E kept \in {fbuf, <<>>} : file' = file \o kept
    /\ fbuf' = <<>>
    /\ UNCHANGED <<prog, target, result, stream, sample_batch_size, batch_left,
                   batches, b, position_counts, sample_count, current_vote, found,
                   preexisting, cancel_requested>>
    /\ UNCHANGED replayVars
    /\ UNCHANGED callerVars
    /\ UNCHANGED repeatVars

\* A handler that notes the failure of the log and goes on with the next sample.
IgnoreLogError(p) == [pc |-> "for", outcome |-> "OSError"]

\* The OSError of f.write or f.flush is caught nowhere in either main: it
\* leaves the function.
OnLogError(p) == [pc |-> "done", outcome |-> "OSError"]

\* f.write(b + "\n") or f.flush() raises OSError (disk full, file system gone).
\* The exception leaves main through the with block, whose close tries once more
\* to write out the buffer, with or without success.
LogFail ==
    /\ prog \in FilePrograms /\ pc \in {"write", "flush"}
    /\ pc' = OnLogError(prog).pc
    /\ outcome' = OnLogError(prog).outcome
    /\ \E kept \in {fbuf, <<>>} : file' = file \o kept
    /\ fbuf' = <<>>
    /\ UNCHANGED <<prog, target, result, stream, sample_batch_size, batch_left,
                   batches, b, position_counts, sample_count, current_vote, found,
                   preexisting, cancel_requested>>
    /\ UNCHANGED replayVars
    /\ UNCHANGED callerVars
    /\ UNCHANGED repeatVars

\* The caller asks the run to stop. The programs have no flag, deadline or
\* parameter through which the request could reach them.
RequestCancel ==
    /\ prog \in FilePrograms /\ pc # "done"
    /\ ~cancel_requested
    /\ cancel_requested' = TRUE
    /\ UNCHANGED <<prog, pc, outcome, target, file, result, current_vote,
                   preexisting>>
    /\ UNCHANGED liveVars
    /\ UNCHANGED replayVars
    /\ UNCHANGED callerVars
    /\ UNCHANGED repeatVars

\* The sample file as a live run finds it: absent or empty, or left by an
\* earlier run (the file is opened in append mode).
EarlierFiles == {<<>>, <<WriteLine([i \in 1..N |-> "0"])>>}

InitLive ==
    /\ prog \in LivePrograms
    /\ pc = IF prog = "helper" THEN "timing" ELSE "while"
    /\ outcome = "none"
    /\ target \in (IF prog = "plain" THEN {<<>>} ELSE BitVectors(N))
    /\ file \in (IF prog \in FilePrograms THEN EarlierFiles ELSE {<<>>})
    /\ fbuf = <<>>
    /\ pos = 0
    /\ bit_counts = EmptyCounts
    /\ lines_processed = 0
    /\ result = NoResult
    /\ stream = <<>>
    /\ sample_batch_size \in (IF prog \in Experiments THEN 1..MaxBatch ELSE {1})
    /\ batch_left = 0
    /\ batches = 0
    /\ b = <<>>
    /\ position_counts = EmptyCounts
    /\ sample_count = 0
    /\ current_vote = NoVote
    /\ found = FALSE
    /\ total_samples = 0
    /\ final_bits = <<>>
    /\ preexisting = Len(file)
    /\ cancel_requested = FALSE
    /\ returns = <<>>
    /\ harness = "none"
    /\ cell = 0
    /\ tested = <<>>
    /\ results = <<>>
    /\ report = NoReport
    /\ counter = EmptyCounter
    /\ repeats = NoRepeats

NextLive ==
    \/ RequestBatch \/ BatchEnd \/ SourceRaise
    \/ TimedSample \/ TimedWrite \/ TimedFlush \/ TimedUpdate \/ TimedCheck
    \/ PlainSample \/ PlainWrite \/ PlainFlush
    \/ MeasureAverage \/ ExperimentSample
    \/ Interrupt \/ RequestCancel \/ LogFail

SpecLive == InitLive /\ [][NextLive]_vars

\* A second instance of the program runs at the same time. Both mains set
\* output_file = "./tensor_networks/samples.txt" and open it with mode "a",
\* without a lock: the other instance's f.write and f.flush put its sample at
\* the end of the same file. Of the other instance only this effect is modelled;
\* it is taken to draw the all-ones sample, and to write no more lines than
\* there is room for samples here.
OtherRunSamples == {[i \in 1..N |-> "1"]}

OtherRunAppend ==
    /\ prog \in FilePrograms /\ pc # "done"
    /\ Len(file) - preexisting <= Len(stream)
    /\ \E s \in OtherRunSamples : file' = FlushTo(file, <<WriteLine(s)>>)
    /\ UNCHANGED <<prog, pc, outcome, target, fbuf, result, stream,
                   sample_batch_size, batch_left, batches, b, position_counts,
                   sample_count, current_vote, found, preexisting,
                   cancel_requested>>
    /\ UNCHANGED replayVars
    /\ UNCHANGED callerVars
    /\ UNCHANGED repeatVars

NextConcurrent == NextLive \/ OtherRunAppend

SpecConcurrent == InitLive /\ [][NextConcurrent]_vars

----------------------------------------------------------------------------
(* main_tuning of tensor_networks_60q_parameter_tuning_helper.py and of     *)
(* tensor_networks_60q_paramater_tuning_withGPU.py: the sweep over the      *)
(* parameter grid and the pivot tables made from its results. The times     *)
(* measured with time.perf_counter() are not modelled: of a result, the     *)
(* model keeps the configuration and the sample count.                      *)

\* The parameter grid (two simplify sequences and two batch sizes here).
optimizer_types == <<"optuna">>
simplify_sequences == <<"ADCRS", "DCRS">>
group_size_values == <<5>>
sample_batch_size_values == <<1, MaxBatch>>

\* target_bitstring of main_tuning, which starts "1101...".
SweepTarget == [i \in 1..N |-> IF i % 3 = 0 THEN "0" ELSE "1"]

Config(o, s, g, c) ==
    [optimizer |-> o, simplify_sequence |-> s, group_size |-> g,
     sample_batch_size |-> c]

\* A product that runs through its first axis fastest.
product_first_fastest(A, B, C, D) ==
    [k \in 1..(Len(A) * Len(B) * Len(C) * Len(D)) |->
        Config(A[((k - 1) % Len(A)) + 1],
               B[(((k - 1) \div Len(A)) % Len(B)) + 1],
               C[(((k - 1) \div (Len(A) * Len(B))) % Len(C)) + 1],
               D[(((k - 1) \div (Len(A) * Len(B) * Len(C))) % Len(D)) + 1])]

\* itertools.product(A, B, C, D): nested loops, the last axis running fastest.
product(A, B, C, D) ==
    [k \in 1..(Len(A) * Len(B) * Len(C) * Len(D)) |->
        Config(A[(((k - 1) \div (Len(B) * Len(C) * Len(D))) % Len(A)) + 1],
               B[(((k - 1) \div (Len(C) * Len(D))) % Len(B)) + 1],
               C[(((k - 1) \div Len(D)) % Len(C)) + 1],
               D[((k - 1) % Len(D)) + 1])]

\* The configurations in the order the for loop takes them.
Grid == product(optimizer_types, simplify_sequences, group_size_values,
                sample_batch_size_values)

\* Locals that a call of run_experiment would inherit from the call before it.
run_experiment_stale_locals ==
    [position_counts |-> position_counts, sample_count |-> sample_count,
     found |-> FALSE, stream |-> <<>>]

\* The locals run_experiment sets up: position_counts, found, samples_count, and
\* np.random.default_rng(42), a generator that starts its sequence anew.
run_experiment_locals ==
    [position_counts |-> EmptyCounts, sample_count |-> 0, found |-> FALSE,
     stream |-> <<>>]

\* The head of the for loop: the next configuration is taken, printed, and
\* run_experiment is called with it.
SweepCell ==
    /\ harness = "for" /\ cell < Len(Grid)
    /\ cell' = cell + 1
    /\ tested' = Append(tested, Grid[cell + 1])
    /\ harness' = "try"
    /\ pc' = IF prog = "helper" THEN "timing" ELSE "while"
    /\ outcome' = "none"
    /\ result' = NoResult
    /\ sample_batch_size' = Grid[cell + 1].sample_batch_size
    /\ position_counts' = run_experiment_locals.position_counts
    /\ sample_count' = run_experiment_locals.sample_count
    /\ found' = run_experiment_locals.found
    /\ stream' = run_experiment_locals.stream
    /\ batch_left' = 0
    /\ batches' = 0
    /\ b' = <<>>
    /\ current_vote' = NoVote
    /\ UNCHANGED <<prog, target, file, fbuf, preexisting, cancel_requested,
                   returns, results, report>>
    /\ UNCHANGED replayVars
    /\ UNCHANGED repeatVars

\* run_experiment is left: the generator, its loop variable and the vote are
\* gone with its frame (the model keeps the counts of the run just ended until
\* the next call makes its own).
LoopLocalsDropped ==
    /\ stream' = <<>>
    /\ batch_left' = 0
    /\ batches' = 0
    /\ b' = <<>>
    /\ current_vote' = NoVote
    /\ found' = FALSE

\* The dict appended for a run that returned. The helper's run_experiment
\* returns no sample count and its dict has no "samples_to_target".
ResultRow(config, samples_count) ==
    [optimizer |-> config.optimizer,
     simplify_sequence |-> config.simplify_sequence,
     group_size |-> config.group_size,
     sample_batch_size |-> config.sample_batch_size,
     samples_to_target |-> samples_count]

\* run_experiment returned: results.append({...}).
SweepAppend ==
    /\ harness = "try" /\ pc = "done" /\ outcome = "returned"
    /\ results' = Append(results, ResultRow(Grid[cell], result))
    /\ harness' = "for"
    /\ pc' = "idle"
    /\ LoopLocalsDropped
    /\ UNCHANGED <<prog, outcome, target, file, fbuf, result, sample_batch_size,
                   position_counts, sample_count, preexisting, cancel_requested,
                   returns, cell, tested, report>>
    /\ UNCHANGED replayVars
    /\ UNCHANGED repeatVars

\* A handler that lets the exception go on.
ExceptReraise(p) == "raise"

\* except Exception: continue (the GPU variant prints the error first).
ExceptHandler(p) == "continue"

\* A handler that appends an entry marked as failed.
AppendFailed(res, config) ==
    Append(res, ResultRow(config, NoResult) @@ [failed |-> TRUE])

\* What the handler leaves in results: what was there.
AfterFailure(res, config) == res

\* run_experiment raised: the except clause.
SweepExcept ==
    /\ harness = "try" /\ pc = "done" /\ outcome \in {"SourceError", "IndexError"}
    /\ results' = AfterFailure(results, Grid[cell])
    /\ harness' = IF ExceptHandler(prog) = "continue" THEN "for" ELSE "raised"
    /\ pc' = "idle"
    /\ LoopLocalsDropped
    /\ UNCHANGED <<prog, outcome, target, file, fbuf, result, sample_batch_size,
                   position_counts, sample_count, preexisting, cancel_requested,
                   returns, cell, tested, report>>
    /\ UNCHANGED replayVars
    /\ UNCHANGED repeatVars

\* The (optimizer, simplify sequence) pairs, one per pair of heatmap axes.
Panels == {<<optimizer_types[i], simplify_sequences[j]>> :
              i \in 1..Len(optimizer_types), j \in 1..Len(simplify_sequences)}

\* The rows of df of one optimizer, whatever their simplify sequence.
FilterOptimizerOnly(rows, o, s) ==
    SelectSeq(rows, LAMBDA r : r.optimizer = o)

\* df[(df["optimizer"] == o) & (df["simplify_sequence"] == s)]
Filter(rows, o, s) ==
    SelectSeq(rows, LAMBDA r : r.optimizer = o /\ r.simplify_sequence = s)

\* DataFrame.pivot raises ValueError when two rows share index and column.
HasDuplicates(rows) ==
    \E j, k \in 1..Len(rows) :
        /\ j # k
        /\ rows[j].group_size = rows[k].group_size
        /\ rows[j].sample_batch_size = rows[k].sample_batch_size

\* .pivot(index="group_size", columns="sample_batch_size", values=metric): the
\* index and the columns are the values present in the rows; a cell holds the
\* metric of its row (<<v>>), or NaN (<<>>) where there is no row.
pivot(rows) ==
    LET index   == {rows[k].group_size : k \in 1..Len(rows)}
        columns == {rows[k].sample_batch_size : k \in 1..Len(rows)}
    IN  [index |-> index, columns |-> columns,
         values |-> [x \in index \X columns |->
             IF \E k \in 1..Len(rows) : <<rows[k].group_size,
                                          rows[k].sample_batch_size>> = x
             THEN <<(CHOOSE r \in {rows[k] : k \in 1..Len(rows)} :
                        <<r.group_size, r.sample_batch_size>> = x).samples_to_target>>
             ELSE <<>>]]

\* After the loop: df = pd.DataFrame(results) and one pivot table per panel. An
\* empty results list gives a DataFrame without columns, and df["optimizer"]
\* raises KeyError.
SweepReport ==
    /\ harness = "for" /\ cell = Len(Grid)
    /\ IF results = <<>>
       THEN /\ harness' = "KeyError"
            /\ UNCHANGED report
       ELSE IF \E p \in Panels : HasDuplicates(Filter(results, p[1], p[2]))
       THEN /\ harness' = "ValueError"
            /\ UNCHANGED report
       ELSE /\ harness' = "exit"
            /\ report' = [p \in Panels |-> pivot(Filter(results, p[1], p[2]))]
    /\ UNCHANGED <<prog, pc, outcome, target, file, result, current_vote,
                   preexisting, cancel_requested, returns, cell, tested, results>>
    /\ UNCHANGED liveVars
    /\ UNCHANGED replayVars
    /\ UNCHANGED repeatVars

InitSweep ==
    /\ prog \in Experiments
    /\ pc = "idle"
    /\ outcome = "none"
    /\ target = SweepTarget
    /\ file = <<>>
    /\ fbuf = <<>>
    /\ pos = 0
    /\ bit_counts = EmptyCounts
    /\ lines_processed = 0
    /\ result = NoResult
    /\ stream = <<>>
    /\ sample_batch_size = 1
    /\ batch_left = 0
    /\ batches = 0
    /\ b = <<>>
    /\ position_counts = EmptyCounts
    /\ sample_count = 0
    /\ current_vote = NoVote
    /\ found = FALSE
    /\ total_samples = 0
    /\ final_bits = <<>>
    /\ preexisting = 0
    /\ cancel_requested = FALSE
    /\ returns = <<>>
    /\ harness = "for"
    /\ cell = 0
    /\ tested = <<>>
    /\ results = <<>>
    /\ report = NoReport
    /\ counter = EmptyCounter
    /\ repeats = NoRepeats

NextSweep ==
    \/ SweepCell \/ SweepAppend \/ SweepExcept \/ SweepReport
    \/ MeasureAverage \/ RequestBatch \/ BatchEnd \/ SourceRaise \/ ExperimentSample

SpecSweep == InitSweep /\ [][NextSweep]_vars

----------------------------------------------------------------------------
(* Reference definitions for the properties: the consensus of a list of     *)
(* samples computed from scratch, by counting symbols position by position. *)

AllOnes == [i \in 1..N |-> "1"]
AllZeros == [i \in 1..N |-> "0"]

\* The texts of the first k lines of f that have the right length, in order.
Accepted(f, k) ==
    SelectSeq([j \in 1..k |-> strip(f[j])], LAMBDA t : Len(t) = N)

\* How often symbol c stands at position i among the first k samples.
Occurrences(samples, k, i, c) ==
    Cardinality({j \in 1..k : i <= Len(samples[j]) /\ samples[j][i] = c})

\* The tie-inclusive consensus of the first k samples: "1" at a position where
\* the ones are at least as many as the zeros.
ConsensusAfter(samples, k) ==
    [i \in 1..N |-> IF Occurrences(samples, k, i, "1") >= Occurrences(samples, k, i, "0")
                    THEN "1" ELSE "0"]

\* The numbers k >= 1 of samples after which the consensus is t.
ConvergingPrefixes(samples, t) ==
    {k \in 1..Len(samples) : ConsensusAfter(samples, k) = t}

Least(S) == CHOOSE k \in S : \A m \in S : k <= m

\* The number of samples up to the first convergence, or all of them.
SamplesToTarget(samples, t) ==
    IF ConvergingPrefixes(samples, t) = {} THEN Len(samples)
    ELSE Least(ConvergingPrefixes(samples, t))

\* The position-wise statement of "the tie-inclusive consensus is the target".
ConsensusIsTarget(counts, t) ==
    \A i \in 1..N :
        /\ counts[i]["1"] >= counts[i]["0"] => t[i] = "1"
        /\ counts[i]["1"] < counts[i]["0"] => t[i] = "0"

----------------------------------------------------------------------------
(* Properties of the replay (under SpecReplay) *)

\* C1: once lines_until_target has accepted a sample, its convergence check has
\* succeeded (the vote it computed is the target) exactly when, at every
\* position, the target bit is 1 where oneCount >= zeroCount and 0 where
\* oneCount < zeroCount; a check that succeeds ends the replay with the count of
\* processed samples, one that fails lets it read on.
C1_HasConvergedIffConsensus ==
    (prog = "replay" /\ lines_processed >= 1) =>
        /\ (current_vote = target) <=> ConsensusIsTarget(bit_counts, target)
        /\ (current_vote = target) => (pc = "done" /\ result = lines_processed)
        /\ (current_vote # target /\ pos < Len(file)) => pc = "loop"

\* C1, witness: the check has succeeded on counts with a tie at some position.
C1_Witness ==
    /\ prog = "replay" /\ pc = "done" /\ current_vote = target
    /\ \E i \in 1..N : bit_counts[i]["1"] = bit_counts[i]["0"] /\ bit_counts[i]["1"] >= 1
    /\ \E i \in 1..N : bit_counts[i]["1"] < bit_counts[i]["0"]

\* C3: what lines_until_target returns is the number of accepted samples at the
\* first point where the consensus is the target, and the number of all accepted
\* samples of the file when no prefix converges; the file "0..0", "1..1", "1..1"
\* with target "1..1" gives 2.
C3_ReturnsFirstConvergence ==
    (prog = "replay" /\ pc = "done") =>
        /\ outcome = "returned"
        /\ result = SamplesToTarget(Accepted(file, Len(file)), target)
        /\ (/\ file = <<WriteLine(AllZeros), WriteLine(AllOnes), WriteLine(AllOnes)>>
            /\ target = AllOnes) => result = 2

\* C3, witness: the run on "0..0", "1..1", "1..1" with target "1..1" has returned.
C3_Witness ==
    /\ prog = "replay" /\ pc = "done"
    /\ file = <<WriteLine(AllZeros), WriteLine(AllOnes), WriteLine(AllOnes)>>
    /\ target = AllOnes
    /\ result = 2

\* C3, second witness: a run that reached the end of a file that never converges.
C3_WitnessNoConvergence ==
    /\ prog = "replay" /\ pc = "done"
    /\ ConvergingPrefixes(Accepted(file, Len(file)), target) = {}
    /\ result = 3

\* The line the replay is about to read is blank or of the wrong length.
AtMalformedLine ==
    /\ prog = "replay" /\ pc = "loop" /\ pos < Len(file)
    /\ Len(strip(file[pos + 1])) # N

TrackedCount == IF prog = "replay" THEN lines_processed ELSE total_samples

\* C5: in lines_until_target and in majority_vote_from_file, at every position
\* zeroCount + oneCount is the number of valid-length lines read so far, and that
\* number is the tracked sample count.
C5_CountsSumToSamples ==
    prog \in {"replay", "majority"} =>
        /\ TrackedCount = Len(Accepted(file, pos))
        /\ \A i \in 1..N : bit_counts[i]["0"] + bit_counts[i]["1"] = TrackedCount

\* C5, witness: two samples were accepted and a malformed line was passed.
C5_Witness ==
    /\ prog = "majority" /\ total_samples = 2 /\ pos = 3
    /\ \E i \in 1..N : bit_counts[i]["0"] = 1 /\ bit_counts[i]["1"] = 1

----------------------------------------------------------------------------
(* Properties of the live runs (under SpecLive) *)

\* The programs that compare a vote with the target.
ConvergenceSites == {"timed", "helper", "gpu"}

\* Every sample drawn so far has the right length.
WellFormedStream == \A k \in 1..Len(stream) : Len(stream[k]) = N

\* The run has found its vote equal to the target.
DeclaredConverged == outcome = "returned" \/ found

\* Every sample drawn so far has been through the convergence check.
CheckedAll == prog \in Experiments \/ pc \in {"for", "while"} \/ outcome = "returned"

\* The samples counted by the engine, and the samples this run has put on disk.
Counted == position_counts[1]["0"] + position_counts[1]["1"]
Flushed == Len(file) - preexisting

\* C2: on a stream of well-formed samples every call site declares convergence
\* after the number of samples at which the tie-inclusive consensus (a tied
\* position votes 1) first equals the target, and not before and not later.
C2_SameTiePolicyEverywhere ==
    (prog \in ConvergenceSites /\ WellFormedStream) =>
        /\ DeclaredConverged =>
              /\ ConvergingPrefixes(stream, target) # {}
              /\ sample_count = Least(ConvergingPrefixes(stream, target))
        /\ (CheckedAll /\ ConvergingPrefixes(stream, target) # {}) => DeclaredConverged

\* C6: in the timed run the samples counted by the engine are on disk, the disk
\* is ahead of the engine by at most one sample and behind the source by at most
\* one, the lines this run put on disk are its samples in arrival order, and a
\* sample is flushed before it is counted and counted before it is checked.
C6_LogAheadOfEngine ==
    prog = "timed" =>
        /\ Counted <= Flushed /\ Flushed <= Counted + 1
        /\ Flushed <= Len(stream) /\ Len(stream) <= Flushed + 1
        /\ \A k \in 1..Flushed : file[preexisting + k] = WriteLine(stream[k])
        /\ pc = "update" => (Flushed = sample_count /\ Counted = sample_count - 1)
        /\ pc = "check" => (Flushed = sample_count /\ Counted = sample_count)
        /\ pc \in {"for", "while"} =>
              /\ Flushed = sample_count /\ Counted = sample_count
              /\ sample_count >= 1 =>
                    current_vote = compute_majority_vote_timed(position_counts, N)

\* C6, witness: the second sample is on disk and not yet counted.
C6_Witness ==
    /\ prog = "timed" /\ pc = "update"
    /\ Flushed = 2 /\ Counted = 1

\* C6, second witness: an interruption lost the sample in flight, and only it.
C6_WitnessInterrupted ==
    /\ prog = "timed" /\ outcome = "interrupted"
    /\ Len(stream) = 2 /\ Flushed = 1 /\ Counted = 1

\* C7: on a stream of well-formed samples a live run returns at the sample with
\* which the consensus first equals the target: it has drawn, counted (and, in
\* the timed run, logged) exactly the samples up to that one, it reports their
\* number (the helper's run_experiment returns no count), and it does not go on
\* past that sample.
C7_ReturnsAtFirstConvergence ==
    (prog \in ConvergenceSites /\ WellFormedStream) =>
        /\ outcome = "returned" =>
              /\ ConsensusAfter(stream, Len(stream)) = target
              /\ \A k \in 1..(Len(stream) - 1) : ConsensusAfter(stream, k) # target
              /\ sample_count = Len(stream) /\ Counted = Len(stream)
              /\ prog # "helper" => result = sample_count
              /\ prog = "timed" => Flushed = sample_count
        /\ \A k \in 1..(Len(stream) - 1) : ConsensusAfter(stream, k) # target

\* C8 as stated: a live run never draws more samples than the budget (here on a
\* stream of well-formed samples).
C8_BudgetRespected ==
    (prog \in ConvergenceSites /\ WellFormedStream) => sample_count <= SampleBudget

\* C8, amended: a live run returns normally only when its vote is the target,
\* after however many samples that takes; the plain sampler never returns.
C8_ReturnsOnlyOnConvergence ==
    /\ (prog \in ConvergenceSites /\ outcome = "returned") =>
          /\ current_vote = target
          /\ VoteOf(prog, position_counts) = target
          /\ sample_count >= 1
    /\ prog = "plain" => outcome # "returned"

\* C8, witness: a run that returned after more samples than the budget.
C8_Witness ==
    /\ prog \in ConvergenceSites /\ outcome = "returned"
    /\ sample_count > SampleBudget

\* C9 as stated: once cancellation is requested no further batch is requested.
C9_CancelStopsBatches == [][cancel_requested => batches' = batches]_vars

\* C9, amended: a requested cancellation does not keep the loop from asking for
\* the next batch; a run ends early only by an interruption from outside, and in
\* every step, also that of the interruption, the lines on disk stay as they are
\* (the file only grows at its end).
C9_FlushedSamplesSurvive ==
    /\ [][(prog \in FilePrograms) =>
            (Len(file') >= Len(file) /\ SubSeq(file', 1, Len(file)) = file)]_vars
    /\ []((prog \in FilePrograms /\ pc = "while" /\ cancel_requested) =>
            ENABLED (RequestBatch /\ batches' = batches + 1))

\* C9, witness: a run interrupted after a cancellation request, with the line of
\* an earlier run and two samples of its own on disk.
C9_Witness ==
    /\ prog = "timed" /\ cancel_requested /\ outcome = "interrupted"
    /\ preexisting = 1 /\ Flushed = 2
    /\ \A k \in 1..2 : file[preexisting + k] = WriteLine(stream[k])

\* C10: a source that raises ends the run: the run is over with the source's
\* exception as its outcome, which a run whose vote is the target never has, and
\* nothing happens after it; a batch is requested only when the generator before
\* it is used up (never again after a failure) or convergence was declared.
C10_SourceFailureEndsRun ==
    /\ [](outcome = "SourceError" =>
            /\ pc = "done" /\ result = NoResult /\ ~found
            /\ prog \in ConvergenceSites => current_vote # target)
    /\ []((prog \in LivePrograms /\ pc = "done") => outcome # "none")
    /\ [][outcome = "SourceError" => UNCHANGED vars]_vars
    /\ [][(prog \in LivePrograms /\ batches' = batches + 1) => batch_left = 0]_vars

\* C10, witness: the source raised in the middle of a batch, after a sample.
C10_Witness ==
    /\ prog = "gpu" /\ outcome = "SourceError"
    /\ sample_count = 1 /\ batch_left = 1

----------------------------------------------------------------------------
(* Properties of the sweep (under SpecSweep) *)

\* The exceptions that end a grid cell's run.
CellFailures == {"SourceError", "IndexError"}

\* The configuration a row of results stands for.
ConfigOf(r) == Config(r.optimizer, r.simplify_sequence, r.group_size,
                      r.sample_batch_size)

\* The configurations that have a row in results.
Recorded == {ConfigOf(results[j]) : j \in 1..Len(results)}

\* The for loop of main_tuning is over.
LoopOver == harness \in {"exit", "KeyError", "ValueError"}

\* C11: a grid cell whose run raises does not end the for loop of main_tuning:
\* the handler goes back to the head of the loop without raising, the head then
\* takes the configuration that follows, and when the loop is over every
\* configuration of the grid has been run, in the grid's order.
C11_FailureNeverAbortsSweep ==
    /\ [](harness # "raised")
    /\ [][(harness = "try" /\ pc = "done" /\ outcome \in CellFailures) =>
            (harness' = "for" /\ cell' = cell /\ tested' = tested)]_vars
    /\ []((harness = "for" /\ cell < Len(Grid)) => ENABLED SweepCell)
    /\ [](tested = SubSeq(Grid, 1, cell))
    /\ [](LoopOver => tested = Grid)

\* C11, witness: the sweep is over, its first configuration failed and a later
\* one has its row.
C11_Witness ==
    /\ harness = "exit"
    /\ Grid[1] \notin Recorded
    /\ Grid[Len(Grid)] \in Recorded

\* C11, second witness: every configuration failed, the loop went through all of
\* them, and the DataFrame made of no row has no column to filter on.
C11_WitnessAllFailed ==
    /\ harness = "KeyError" /\ tested = Grid /\ results = <<>>

\* C12 as stated: every configuration whose run is over, failed or not, has an
\* entry in results.
C12_FailedCellRecorded ==
    harness = "for" => \A k \in 1..cell : Grid[k] \in Recorded

\* C12, amended: a failed grid cell leaves no entry: the handler leaves results
\* as they are, results change only by the append of the row of a run that
\* returned, and so they never hold more rows than configurations were run.
C12_FailedCellLeavesNoEntry ==
    /\ [][(harness = "try" /\ pc = "done" /\ outcome \in CellFailures) =>
            results' = results]_vars
    /\ [][results' # results =>
            /\ harness = "try" /\ pc = "done" /\ outcome = "returned"
            /\ results' = Append(results, ResultRow(Grid[cell], result))]_vars
    /\ [](Len(results) <= cell)
    /\ [](\A j \in 1..Len(results) : DOMAIN results[j] = DOMAIN ResultRow(Grid[1], 0))

\* C12, witness: a 2x2 grid with one failed cell ends with three rows, none of
\* them for the failed configuration.
C12_Witness ==
    /\ harness = "exit" /\ Len(Grid) = 4 /\ Len(results) = 3
    /\ Grid[2] \notin Recorded

\* The counts of the first k samples, made from scratch.
CountsOf(samples, k) ==
    [i \in 1..N |-> [c \in Symbols |-> Occurrences(samples, k, i, c)]]

\* The numbers k >= 1 of samples after which program p's own vote is t.
VotingPrefixes(p, samples, t) ==
    {k \in 1..Len(samples) : VoteOf(p, CountsOf(samples, k)) = t}

\* C13: every call of run_experiment starts from counts of zero, a sample count
\* of zero and a source at the start of its sequence; during the call the counts
\* are those of the samples of this call alone, and the sample count the GPU
\* variant records is the number of this call's samples up to the first whose
\* vote is the target, whatever ran before.
C13_NoLeakBetweenCells ==
    harness = "try" =>
        /\ (pc = "timing" \/ (pc = "while" /\ batches = 0)) =>
              /\ position_counts = EmptyCounts
              /\ sample_count = 0
              /\ stream = <<>>
        /\ position_counts = CountsOf(stream, Len(stream))
        /\ sample_count = Len(stream)
        /\ (pc = "done" /\ outcome = "returned" /\ prog = "gpu") =>
              /\ VotingPrefixes(prog, stream, target) # {}
              /\ result = Least(VotingPrefixes(prog, stream, target))
        /\ found =>
              /\ VotingPrefixes(prog, stream, target) # {}
              /\ sample_count = Least(VotingPrefixes(prog, stream, target))

\* C13, witness: the third configuration converged on its first sample after a
\* configuration that took three samples and one that failed.
C13_Witness ==
    /\ harness = "try" /\ prog = "gpu" /\ cell = 3
    /\ Len(results) = 1 /\ results[1].samples_to_target = 3
    /\ pc = "done" /\ outcome = "returned" /\ result = 1

\* The cells of the pivot tables that hold a value.
ReportCells ==
    UNION {{<<p, x>> : x \in {y \in DOMAIN report[p].values :
                                 report[p].values[y] # <<>>}} : p \in Panels}

\* The cells of the pivot tables that show row r.
CellsOf(r) ==
    {c \in ReportCells :
        /\ c[1] = <<r.optimizer, r.simplify_sequence>>
        /\ c[2] = <<r.group_size, r.sample_batch_size>>
        /\ report[c[1]].values[c[2]] = <<r.samples_to_target>>}

\* C14: the pivot of no panel fails on two rows with the same group size and
\* batch size, and once the tables are made every row of results is shown by
\* exactly one cell, in the panel of its optimizer and simplify sequence at its
\* group size and batch size, and no cell holds a value that is not a row's; a
\* configuration without a row leaves NaN or a smaller table.
C14_ReportLossless ==
    /\ harness # "ValueError"
    /\ harness = "exit" =>
          /\ \A j \in 1..Len(results) : Cardinality(CellsOf(results[j])) = 1
          /\ Cardinality(ReportCells) = Len(results)
          /\ \A c \in ReportCells : \E j \in 1..Len(results) : c \in CellsOf(results[j])

\* C14, witness: the tables of a sweep in which one panel lost a configuration
\* and the other kept both.
C14_Witness ==
    /\ harness = "exit" /\ Len(results) = 3
    /\ \E p \in Panels : Cardinality(report[p].columns) = 1
    /\ \E p \in Panels : Cardinality(report[p].columns) = 2

\* The place of value v on an axis.
AxisIndex(axis, v) == CHOOSE i \in 1..Len(axis) : axis[i] = v

\* Configuration x comes before y in the nested order of the axes as declared:
\* optimizer outermost, then simplify sequence, group size, batch size.
Before(x, y) ==
    LET ix == <<AxisIndex(optimizer_types, x.optimizer),
                AxisIndex(simplify_sequences, x.simplify_sequence),
                AxisIndex(group_size_values, x.group_size),
                AxisIndex(sample_batch_size_values, x.sample_batch_size)>>
        iy == <<AxisIndex(optimizer_types, y.optimizer),
                AxisIndex(simplify_sequences, y.simplify_sequence),
                AxisIndex(group_size_values, y.group_size),
                AxisIndex(sample_batch_size_values, y.sample_batch_size)>>
    IN  \E a \in 1..4 : ix[a] < iy[a] /\ \A a2 \in 1..(a - 1) : ix[a2] = iy[a2]

\* Every combination of one value per axis.
AllConfigs ==
    {Config(optimizer_types[i], simplify_sequences[j], group_size_values[k],
            sample_batch_size_values[l]) :
        i \in 1..Len(optimizer_types), j \in 1..Len(simplify_sequences),
        k \in 1..Len(group_size_values), l \in 1..Len(sample_batch_size_values)}

\* C15: the configurations are run in the nested order of the axes (each comes
\* before the one run next, hence before all run later), each combination once,
\* all of them by the end of the loop; results only grow at their end, and their
\* rows stand in the order in which the configurations ran.
C15_GridOrderAppendOnly ==
    /\ [](\A i \in 1..(Len(tested) - 1) : Before(tested[i], tested[i + 1]))
    /\ [](LoopOver => ({tested[k] : k \in 1..Len(tested)} = AllConfigs
                        /\ Len(tested) = Cardinality(AllConfigs)))
    /\ [][/\ Len(results') >= Len(results)
          /\ SubSeq(results', 1, Len(results)) = results]_vars
    /\ [](\A i \in 1..(Len(results) - 1) :
             Before(ConfigOf(results[i]), ConfigOf(results[i + 1])))

\* C15, witness: the sweep is over with a row for every configuration.
C15_Witness ==
    /\ harness = "exit" /\ Len(results) = Len(Grid) /\ Len(Grid) >= 4

----------------------------------------------------------------------------
(* Properties of the consensus as a function of the samples (under          *)
(* SpecReplay: both replay functions feed the counts line by line)          *)

ReplayPrograms == {"replay", "majority"}

\* The tie-inclusive consensus of the counts the replay holds.
Consensus == compute_majority_vote(bit_counts, N)

\* C16 as stated: a replay that ends without having accepted a sample holds
\* counts whose tie-inclusive consensus is 0 at every position.
C16_EmptyConsensusZero ==
    (prog \in ReplayPrograms /\ pc = "done" /\ TrackedCount = 0) =>
        Consensus = AllZeros

\* C16, amended: as long as no sample was accepted (nothing read yet, or only
\* blank and malformed lines) every count is zero and the tie-inclusive
\* consensus is 1 at every position, 0 >= 0 being a tie.
C16_EmptyConsensusOne ==
    (prog \in ReplayPrograms /\ TrackedCount = 0) =>
        /\ \A i \in 1..N : bit_counts[i]["1"] = 0 /\ bit_counts[i]["0"] = 0
        /\ \A i \in 1..N : Consensus[i] = "1"

\* C16, witness: a replay that is over without an accepted sample, on a file of
\* two malformed lines.
C16_Witness ==
    /\ prog = "replay" /\ pc = "done" /\ TrackedCount = 0
    /\ Len(file) = 2 /\ pos = 2

\* oneCount - zeroCount at position i, and its absolute value.
Lead(counts, i) == counts[i]["1"] - counts[i]["0"]
Margin(counts, i) == IF Lead(counts, i) >= 0 THEN Lead(counts, i) ELSE -Lead(counts, i)

\* The step accepts one further sample.
AcceptsSample == prog \in ReplayPrograms /\ TrackedCount' = TrackedCount + 1

\* The counts before the sample of the line read last was counted.
CountsBefore ==
    [i \in 1..N |-> [bit_counts[i] EXCEPT ![strip(file[pos])[i]] = @ - 1]]

\* The line read last was accepted, after at least k others.
LastAcceptedAfter(k) ==
    /\ prog \in ReplayPrograms /\ pos >= 1 /\ TrackedCount >= k + 1
    /\ Len(strip(file[pos])) = N

\* C17: whatever vector the consensus equals (the target among them), when the
\* winning symbol leads by at least 2 at every position, the consensus after one
\* further accepted sample is the same vector; lines_until_target, which votes
\* after every sample, finds the same vote again.
C17_MarginTwoIsStable ==
    [][(AcceptsSample /\ \A i \in 1..N : Margin(bit_counts, i) >= 2) =>
          \A t \in BitVectors(N) :
              Consensus = t =>
                  /\ Consensus' = t
                  /\ (prog = "replay" /\ current_vote = t) => current_vote' = t]_vars

\* C17, witness: a sample that differs from the consensus at every position was
\* accepted on counts with a margin of at least 2 everywhere.
C17_Witness ==
    /\ LastAcceptedAfter(2) /\ prog = "replay"
    /\ \A i \in 1..N : Margin(CountsBefore, i) >= 2
    /\ \A i \in 1..N :
          strip(file[pos])[i] # compute_majority_vote(CountsBefore, N)[i]
    /\ current_vote = compute_majority_vote(CountsBefore, N)

\* C18: one further accepted sample changes the consensus at a position exactly
\* when the zeros lead there by one and the sample has a 1 (the tie then votes
\* 1), or the counts are tied there and the sample has a 0; so a consensus that
\* equals a target with a margin of 1 can differ from it one sample later.
C18_FlipsAtTheBoundary ==
    [][AcceptsSample =>
          \A i \in 1..N :
              (Consensus'[i] # Consensus[i]) <=>
                  \/ Lead(bit_counts, i) = -1 /\ strip(file[pos'])[i] = "1"
                  \/ Lead(bit_counts, i) = 0 /\ strip(file[pos'])[i] = "0"]_vars

\* C18, witness: the consensus was a vector with a margin of exactly 1 at some
\* position, and the sample accepted next has made it another vector.
C18_Witness ==
    /\ LastAcceptedAfter(1)
    /\ \E i \in 1..N :
          /\ Margin(CountsBefore, i) = 1
          /\ Consensus[i] # compute_majority_vote(CountsBefore, N)[i]
    /\ Consensus # compute_majority_vote(CountsBefore, N)

\* The counts a fresh replay of the given lines ends with (the loop over the
\* lines of lines_until_target without its return, and of
\* majority_vote_from_file).
RECURSIVE ReplayCounts(_, _)
ReplayCounts(counts, lines) ==
    IF lines = <<>> THEN counts
    ELSE LET sample == strip(Head(lines))
         IN  ReplayCounts(IF IsSkipped(sample, N) THEN counts
                          ELSE UpdateCounts(counts, sample),
                          Tail(lines))

\* The orders in which n lines can arrive: the permutations of 1..n.
ArrivalOrders(n) == Permutations(1..n)

\* The replay has read the whole file (in its first call).
WholeStreamRead ==
    prog \in ReplayPrograms /\ pc = "done" /\ pos = Len(file) /\ returns = <<>>

\* C19: the counts, and so the consensus, a replay holds after the whole file are
\* those a replay of the same lines in any other order ends with; and at every
\* point of a replay the vote at a position is 1 exactly when, among the symbols
\* seen so far at that position, the ones are at least as many as the zeros.
C19_OrderIndependent ==
    /\ WholeStreamRead =>
          \A f \in ArrivalOrders(Len(file)) :
              LET lines  == [k \in 1..Len(file) |-> file[f[k]]]
                  counts == ReplayCounts(EmptyCounts, lines)
              IN  /\ counts = bit_counts
                  /\ compute_majority_vote(counts, N) = Consensus
    /\ prog \in ReplayPrograms =>
          LET seen == Accepted(file, pos)
          IN  \A i \in 1..N :
                  Consensus[i] = "1" <=>
                      Occurrences(seen, TrackedCount, i, "1")
                          >= Occurrences(seen, TrackedCount, i, "0")

\* C19, witness: a whole file of three different samples has been read.
C19_Witness ==
    /\ WholeStreamRead /\ prog = "majority" /\ pos = 3 /\ total_samples = 3
    /\ file[1] # file[2] /\ file[2] # file[3] /\ file[1] # file[3]

\* C20: no step of a replay changes the file; and the second call on the same
\* file, with the same num_qubits and target, ends with what the first call
\* ended with: the same value returned (the sample count of lines_until_target
\* and of majority_vote_from_file) and the same consensus.
C20_ReplayDeterministic ==
    /\ [][(prog \in ReplayPrograms) => (file' = file)]_vars
    /\ []((prog \in ReplayPrograms /\ pc = "done" /\ returns # <<>>) =>
            returns[1] = ReturnOf(prog))
    /\ []((prog \in ReplayPrograms /\ returns # <<>>) =>
            bit_counts = ReplayCounts(EmptyCounts, SubSeq(file, 1, pos)))

\* C20, witness: the second replay of a file has converged at its second sample.
C20_Witness ==
    /\ prog = "replay" /\ pc = "done" /\ returns # <<>>
    /\ result = 2 /\ current_vote = target /\ pos < Len(file)

----------------------------------------------------------------------------
(* Properties of majority_vote_from_file (under SpecReplay) *)

\* The positions at which the counts are not tied.
Untied == {i \in 1..N : bit_counts[i]["1"] # bit_counts[i]["0"]}

\* The symbol with the larger count at an untied position.
Winner(i) == IF bit_counts[i]["1"] > bit_counts[i]["0"] THEN "1" ELSE "0"

\* majority_vote_from_file has returned.
MajorityReturned == prog = "majority" /\ pc = "done"

C21_WitnessOneTie ==
    /\ MajorityReturned /\ total_samples = 2
    /\ Cardinality(Untied) = N - 1 /\ Len(final_bits) = N - 1

\* C30: in the bitstring majority_vote_from_file returns, the symbol at the
\* place of every untied position is the winner of that position.
C30_VoteAtOwnIndex ==
    MajorityReturned =>
        \A i \in Untied : Len(final_bits) >= i /\ final_bits[i] = Winner(i)

----------------------------------------------------------------------------
(* Properties of check_repeats_from_file (under SpecReplay) *)

\* How many lines of the file have the text s once stripped.
LinesWithText(s) == Cardinality({k \in 1..Len(file) : strip(file[k]) = s})

\* C22: the dict check_repeats_from_file returns has as keys exactly the
\* bitstrings of length N that are the text of more than one line of the file,
\* each with the number of these lines; a text found once and a text of another
\* length are no keys; the file "01", "01", "10" gives {"01": 2}.
C22_RepeatsAreTheDuplicates ==
    (prog = "repeats" /\ pc = "done") =>
        /\ outcome = "returned"
        /\ DOMAIN repeats = {s \in LineTexts : Len(s) = N /\ LinesWithText(s) > 1}
        /\ \A s \in DOMAIN repeats : repeats[s] = LinesWithText(s)
        /\ \A k \in 1..Len(file) :
              (Len(strip(file[k])) # N \/ LinesWithText(strip(file[k])) = 1)
                  => strip(file[k]) \notin DOMAIN repeats

\* The bitstrings "0101..." and "1010..." of length N.
ZeroOne == [i \in 1..N |-> IF i % 2 = 1 THEN "0" ELSE "1"]
OneZero == [i \in 1..N |-> IF i % 2 = 1 THEN "1" ELSE "0"]

\* C22, witness: the file "0101...", "0101...", "1010..." and the dict
\* {"0101...": 2}.
C22_Witness ==
    /\ prog = "repeats" /\ pc = "done"
    /\ file = <<WriteLine(ZeroOne), WriteLine(ZeroOne), WriteLine(OneZero)>>
    /\ DOMAIN repeats = {ZeroOne}
    /\ repeats[ZeroOne] = 2

\* C22, second witness: a line of a wrong length that stands twice in the file
\* and is no key.
C22_WitnessMalformedTwice ==
    /\ prog = "repeats" /\ pc = "done"
    /\ LinesWithText(ShortSample) = 2
    /\ DOMAIN repeats = {}

----------------------------------------------------------------------------
(* Properties of the live runs that concern malformed samples and the log   *)
(* (under SpecLive)                                                         *)

\* The samples drawn so far that have the right length.
WellFormedDrawn == Cardinality({k \in 1..Len(stream) : Len(stream[k]) = N})

\* C23: in a live run and in a sweep cell a sample of a wrong length leaves every
\* position count as it is, is not written to the log, and does not end the run
\* with an error.
C23_MalformedSampleRejected ==
    prog \in ConvergenceSites =>
        /\ outcome # "IndexError"
        /\ \A i \in 1..N :
              position_counts[i]["0"] + position_counts[i]["1"] <= WellFormedDrawn
        /\ \A k \in (preexisting + 1)..Len(file) : Len(strip(file[k])) = N

\* The number of samples position i has counted.
Tally(counts, i) == counts[i]["0"] + counts[i]["1"]

\* C24: the position counts never decrease, and a sample the live run takes in
\* raises, at every position, exactly one of the two counts by exactly one.
C24_EverySampleCountsEverywhere ==
    [][(prog \in ConvergenceSites) =>
        /\ \A i \in 1..N : \A c \in Bits :
              position_counts'[i][c] >= position_counts[i][c]
        /\ (position_counts' # position_counts) =>
              \A i \in 1..N :
                  Tally(position_counts', i) = Tally(position_counts, i) + 1]_vars

\* The lines this run has put on disk before the sample drawn last.
FlushedBeforeLast ==
    SubSeq(file, preexisting + 1, preexisting + Len(stream) - 1)

\* C25: when writing or flushing a sample to the log fails, the run is over as a
\* failure: the sample in flight is in no position count, no result is returned
\* and nothing happens afterwards; the failing step leaves the lines on disk as
\* they are, so that every sample flushed before is on disk as it was written,
\* and a replay of those lines counts what the engine has counted.
C25_LogFailureEndsRun ==
    /\ [](outcome = "OSError" =>
            /\ prog \in FilePrograms /\ pc = "done" /\ result = NoResult
            /\ Len(stream) >= 1
            /\ Flushed \in {Len(stream) - 1, Len(stream)}
            /\ \A k \in 1..Flushed : file[preexisting + k] = WriteLine(stream[k])
            /\ prog = "timed" =>
                  /\ position_counts = CountsOf(stream, Len(stream) - 1)
                  /\ WellFormedStream =>
                        ReplayCounts(EmptyCounts, FlushedBeforeLast) = position_counts)
    /\ [][outcome = "OSError" => UNCHANGED vars]_vars
    /\ [][(outcome # "OSError" /\ outcome' = "OSError") =>
            /\ stream' = stream /\ position_counts' = position_counts
            /\ Len(file') >= Len(file) /\ SubSeq(file', 1, Len(file)) = file]_vars

\* C25, witness: the log failed at the second sample of a timed run; the first
\* is on disk and counted, the second is neither.
C25_Witness ==
    /\ prog = "timed" /\ outcome = "OSError"
    /\ Len(stream) = 2 /\ Flushed = 1 /\ Counted = 1

----------------------------------------------------------------------------
(* Two runs at the same time (under SpecConcurrent) *)

\* C26: the log has one writer at a time: what stands in the file behind the
\* lines the run found there are the samples of this run, in the order drawn.
C26_SingleWriter ==
    prog \in FilePrograms =>
        /\ Flushed <= Len(stream)
        /\ \A k \in 1..Flushed : file[preexisting + k] = WriteLine(stream[k])

----------------------------------------------------------------------------
(* What the value returned by lines_until_target tells (under SpecReplay) *)

\* The accepted lines of a whole file.
AcceptedLines(f) == Accepted(f, Len(f))

\* A log of n lines that never reaches the target: every line is the target
\* with each bit flipped.
ComplementLog(n) ==
    [k \in 1..n |-> WriteLine([i \in 1..N |-> IF target[i] = "1" THEN "0" ELSE "1"])]

\* The replay has returned, and the consensus reached the target at the last
\* accepted line of the file.
ConvergedAtLastLine ==
    /\ prog = "replay" /\ pc = "done"
    /\ current_vote = target
    /\ result = Len(AcceptedLines(file))

C29_WitnessNeverReached ==
    /\ prog = "replay" /\ pc = "done" /\ result = 2
    /\ ConvergingPrefixes(AcceptedLines(file), target) = {}

----------------------------------------------------------------------------
(* The live run and the replay of its log (under SpecLive) *)

\* The timed run has returned: its consensus equals the target.
TimedReturned == prog = "timed" /\ outcome = "returned"

\* C27: after a timed run has converged after k samples, the log holds exactly
\* those k samples and lines_until_target on the log returns k, whatever the
\* file held when the run started.
C27_ReplayAgreesWithLiveRun ==
    TimedReturned =>
        /\ Len(file) = result
        /\ \A k \in 1..Len(file) : k <= Len(stream) /\ file[k] = WriteLine(stream[k])
        /\ lines_until_target(file, target) = result

\* The run has ended of its own accord: by a return or by an error of its own.
EndedByItself == outcome \in {"returned", "IndexError"}

\* C28: a live run ends by itself exactly when the samples drawn have a prefix
\* whose tie-inclusive consensus is the target: it then has drawn exactly the
\* shortest such prefix, it does not go on once every sample drawn is checked
\* and such a prefix exists, and without such a prefix it does not end.
C28_EndsExactlyAtShortestPrefix ==
    prog \in ConvergenceSites =>
        /\ (WellFormedStream /\ DeclaredConverged) =>
              /\ ConvergingPrefixes(stream, target) # {}
              /\ Len(stream) = Least(ConvergingPrefixes(stream, target))
        /\ (WellFormedStream /\ CheckedAll /\ ConvergingPrefixes(stream, target) # {}) =>
              (DeclaredConverged \/ outcome \in {"interrupted", "SourceError"})
        /\ ConvergingPrefixes(stream, target) = {} => ~EndedByItself

====
